---- MODULE Spec2Model ----
(***************************************************************************)
(* CSVAnalyzer (src/csv_analyzer.py): column classification, connection   *)
(* discovery (pairwise Pearson correlation, categorical influence by      *)
(* ratio of group standard deviations, ranking) and outlier detection.    *)
(*                                                                         *)
(* Arithmetic is exact.  A correlation coefficient r is kept as its sign  *)
(* and its square num/den; a standard deviation as its square (variance). *)
(* The 1e-10 added to the smallest group deviation is far below every     *)
(* gap between two distinct values that the bounded data can produce, so  *)
(* it is kept as a first-order infinitesimal (fields dnum/dden of a       *)
(* strength).                                                              *)
(***************************************************************************)
EXTENDS Integers, Sequences, FiniteSets, TLC

VARIABLES file, data, numeric_columns, categorical_columns, ret, last_connections

vars == <<file, data, numeric_columns, categorical_columns, ret, last_connections>>

(***************************************************************************)
(* Cells of a CSV file and values of a loaded frame.                       *)
(***************************************************************************)
Num(v) == [t |-> "num", v |-> v]
NA == [t |-> "na", v |-> 0]
Str(i) == [t |-> "str", v |-> i]
Bool(b) == [t |-> "bool", v |-> b]
NumStr(v) == [t |-> "numstr", v |-> v]
BoolStr(b) == [t |-> "boolstr", v |-> b]

IsNA(c) == c.t = "na"

Names == <<"c1", "c2", "c3">>
ColName(i) == Names[i]

Range(s) == {s[i] : i \in DOMAIN s}

\* the sum of f[i] over the rows i <= k of DOMAIN f
RECURSIVE SumTo(_, _)
SumTo(f, k) ==
  IF k = 0 THEN 0
  ELSE (IF k \in DOMAIN f THEN f[k] ELSE 0) + SumTo(f, k - 1)

\* the sum of f[i] over a set of rows
SumFn(f) ==
  IF DOMAIN f = {} THEN 0
  ELSE SumTo(f, CHOOSE m \in DOMAIN f : \A j \in DOMAIN f : j <= m)

(***************************************************************************)
(* pd.read_csv: dtype inference of one column.                             *)
(***************************************************************************)
InferDtype(cells) ==
  IF Len(cells) = 0 THEN "object"
  ELSE IF \A i \in DOMAIN cells : cells[i].t = "na" THEN "float64"
  ELSE IF \A i \in DOMAIN cells : cells[i].t \in {"num", "na"}
       THEN IF \E i \in DOMAIN cells : cells[i].t = "na" THEN "float64" ELSE "int64"
  ELSE IF \A i \in DOMAIN cells : cells[i].t = "bool" THEN "bool"
  ELSE "object"

\* the value a cell is stored as in a column of the given dtype
ParseCell(c, dtype, boolsOnly) ==
  IF dtype # "object" \/ c.t \in {"na", "str"} THEN c
  ELSE IF c.t = "num" THEN NumStr(c.v)
  ELSE IF boolsOnly THEN c ELSE BoolStr(c.v)

ParseColumn(cells) ==
  LET dtype == InferDtype(cells)
      boolsOnly == \A i \in DOMAIN cells : cells[i].t \in {"bool", "na"}
  IN [i \in DOMAIN cells |-> ParseCell(cells[i], dtype, boolsOnly)]

NoData == [nrows |-> -1, columns |-> <<>>]

\* a file without columns makes read_csv raise (EmptyDataError)
ReadCsvFails(f) == Len(f) = 0

read_csv(f) ==
  [nrows |-> Len(f[1]),
   columns |-> [i \in DOMAIN f |->
                  [name |-> ColName(i), dtype |-> InferDtype(f[i]), values |-> ParseColumn(f[i])]]]

select_dtypes(d, dtypes) ==
  LET keep == SelectSeq(d.columns, LAMBDA c : c.dtype \in dtypes)
  IN [i \in DOMAIN keep |-> keep[i].name]

Column(d, name) == CHOOSE c \in Range(d.columns) : c.name = name

(***************************************************************************)
(* Numeric correlations: DataFrame.corr() (Pearson, pairwise complete      *)
(* rows) and the threshold of find_connections.                            *)
(***************************************************************************)
NaN == [nan |-> TRUE, sgn |-> 0, num |-> 0, den |-> 1]

Sign(x) == IF x > 0 THEN 1 ELSE IF x < 0 THEN -1 ELSE 0

\* n*sum(x^2) - sum(x)^2 of the integers f[i], i \in DOMAIN f
SumSqDev(f) ==
  Cardinality(DOMAIN f) * SumFn([i \in DOMAIN f |-> f[i] * f[i]]) - SumFn(f) * SumFn(f)

corr(a, b) ==
  LET I == {i \in DOMAIN a : ~IsNA(a[i]) /\ ~IsNA(b[i])}
      x == [i \in I |-> a[i].v]
      y == [i \in I |-> b[i].v]
      ssx == SumSqDev(x)
      ssy == SumSqDev(y)
      cov == Cardinality(I) * SumFn([i \in I |-> x[i] * y[i]]) - SumFn(x) * SumFn(y)
  IN IF I = {} \/ ssx * ssy = 0 THEN NaN
     ELSE [nan |-> FALSE, sgn |-> Sign(cov), num |-> cov * cov, den |-> ssx * ssy]

CorrThresholdNum == 3
CorrThresholdDen == 10

\* variant: abs(correlation) >= 0.3
AtOrAboveThreshold(c) ==
  /\ ~c.nan
  /\ c.num * CorrThresholdDen * CorrThresholdDen >= CorrThresholdNum * CorrThresholdNum * c.den

\* variant: not (abs(correlation) <= 0.3), which an undefined coefficient passes
NotBelowThreshold(c) ==
  \/ c.nan
  \/ c.num * CorrThresholdDen * CorrThresholdDen > CorrThresholdNum * CorrThresholdNum * c.den

\* abs(correlation) > 0.3; False for an undefined coefficient
AboveThreshold(c) ==
  /\ ~c.nan
  /\ c.num * CorrThresholdDen * CorrThresholdDen > CorrThresholdNum * CorrThresholdNum * c.den

\* abs(correlation) as a strength
AbsStrength(c) == [num |-> c.num, den |-> c.den, dnum |-> 0, dden |-> 1]

\* s1 < s2 for strengths: by square, then by the infinitesimal taken off
StrengthLess(s1, s2) ==
  \/ s1.num * s2.den < s2.num * s1.den
  \/ /\ s1.num * s2.den = s2.num * s1.den
     /\ s1.dnum * s2.dden > s2.dnum * s1.dden

CorrelationRecord(d, col1, col2) ==
  LET c == corr(Column(d, col1).values, Column(d, col2).values)
  IN [type |-> "correlation", column1 |-> col1, column2 |-> col2,
      strength |-> AbsStrength(c),
      direction |-> IF c.sgn > 0 THEN "positive" ELSE "negative",
      value |-> c]

\* the pairs (i, j), i < j <= n, in the order of the two loops
RECURSIVE PairsFrom(_, _, _)
PairsFrom(i, j, n) ==
  IF i >= n THEN <<>>
  ELSE IF j > n THEN PairsFrom(i + 1, i + 2, n)
  ELSE <<(<<i, j>>)>> \o PairsFrom(i, j + 1, n)

Correlations(d, numeric) ==
  IF Len(numeric) > 1
  THEN LET pairs == PairsFrom(1, 2, Len(numeric))
           kept == SelectSeq(pairs, LAMBDA p :
                     AboveThreshold(corr(Column(d, numeric[p[1]]).values,
                                         Column(d, numeric[p[2]]).values)))
       IN [k \in DOMAIN kept |-> CorrelationRecord(d, numeric[kept[k][1]], numeric[kept[k][2]])]
  ELSE <<>>

(***************************************************************************)
(* Categorical influence: groupby(cat)[num].agg(mean, std, count).         *)
(***************************************************************************)
GroupLabels(cat) == {cat[i] : i \in {j \in DOMAIN cat : ~IsNA(cat[j])}}

\* variant: the deviation of fewer than two values taken as 0
GroupStatStdZero(cat, num, label) ==
  LET I == {i \in DOMAIN cat : cat[i] = label /\ ~IsNA(num[i])}
      x == [i \in I |-> num[i].v]
      n == Cardinality(I)
  IN [count |-> n, sum |-> SumFn(x), ssd |-> SumSqDev(x),
      varden |-> IF n < 2 THEN 1 ELSE n * (n - 1), stdnan |-> FALSE]

\* one row of the aggregate: mean is sum / count; std is the square root of
\* ssd / varden, undefined (NaN, stdnan) for fewer than two values
GroupStat(cat, num, label) ==
  LET I == {i \in DOMAIN cat : cat[i] = label /\ ~IsNA(num[i])}
      x == [i \in I |-> num[i].v]
      n == Cardinality(I)
  IN [count |-> n, sum |-> SumFn(x), ssd |-> SumSqDev(x),
      varden |-> IF n < 2 THEN 1 ELSE n * (n - 1), stdnan |-> n < 2]

groupby_agg(cat, num) == [label \in GroupLabels(cat) |-> GroupStat(cat, num, label)]

VarDen(g) == g.varden

\* grouped['std'].max() and .min() skip the undefined deviations
StdDefined(grouped) == {l \in DOMAIN grouped : ~grouped[l].stdnan}

StdMax(grouped) ==
  LET S == StdDefined(grouped)
  IN grouped[CHOOSE l \in S : \A m \in S :
               grouped[m].ssd * VarDen(grouped[l]) <= grouped[l].ssd * VarDen(grouped[m])]

StdMin(grouped) ==
  LET S == StdDefined(grouped)
  IN grouped[CHOOSE l \in S : \A m \in S :
               grouped[l].ssd * VarDen(grouped[m]) <= grouped[m].ssd * VarDen(grouped[l])]

VarianceRatioThreshold == 2
StrengthDivisor == 10

\* variance_ratio > 2, with variance_ratio = max std / (min std + 1e-10)
RatioAbove(grouped, k) ==
  /\ StdDefined(grouped) # {}
  /\ LET mx == StdMax(grouped)
         mn == StdMin(grouped)
     IN IF mn.ssd = 0 THEN mx.ssd > 0
        ELSE mx.ssd * VarDen(mn) > k * k * mn.ssd * VarDen(mx)

\* min(variance_ratio / 10, 1.0)
InfluenceStrength(grouped) ==
  LET mx == StdMax(grouped)
      mn == StdMin(grouped)
  IN IF RatioAbove(grouped, StrengthDivisor)
     THEN [num |-> 1, den |-> 1, dnum |-> 0, dden |-> 1]
     ELSE [num |-> mx.ssd * VarDen(mn),
           den |-> StrengthDivisor * StrengthDivisor * mn.ssd * VarDen(mx),
           dnum |-> mx.ssd * VarDen(mn) * VarDen(mn),
           dden |-> StrengthDivisor * StrengthDivisor * VarDen(mx) * mn.ssd * mn.ssd]

InfluenceEmitted(d, cat_col, num_col) ==
  LET grouped == groupby_agg(Column(d, cat_col).values, Column(d, num_col).values)
  IN /\ Cardinality(DOMAIN grouped) > 1
     /\ RatioAbove(grouped, VarianceRatioThreshold)

InfluenceRecord(d, cat_col, num_col) ==
  LET grouped == groupby_agg(Column(d, cat_col).values, Column(d, num_col).values)
  IN [type |-> "categorical_influence", categorical_column |-> cat_col,
      numeric_column |-> num_col, strength |-> InfluenceStrength(grouped),
      details |-> grouped]

\* the pairs (i, j), i <= m, j <= n, in the order of the two loops
RECURSIVE Product(_, _, _, _)
Product(i, j, m, n) ==
  IF i > m \/ n = 0 THEN <<>>
  ELSE IF j > n THEN Product(i + 1, 1, m, n)
  ELSE <<(<<i, j>>)>> \o Product(i, j + 1, m, n)

Influences(d, numeric, categorical) ==
  LET pairs == Product(1, 1, Len(categorical), Len(numeric))
      kept == SelectSeq(pairs, LAMBDA p : InfluenceEmitted(d, categorical[p[1]], numeric[p[2]]))
  IN [k \in DOMAIN kept |-> InfluenceRecord(d, categorical[kept[k][1]], numeric[kept[k][2]])]

(***************************************************************************)
(* sorted(connections, key=strength, reverse=True): stable, descending.   *)
(***************************************************************************)
\* x goes after every element that is not smaller than it
InsertDesc(s, x) ==
  LET before == {i \in 0..Len(s) : \A j \in 1..i : ~StrengthLess(s[j].strength, x.strength)}
      k == CHOOSE i \in before : \A j \in before : j <= i
  IN SubSeq(s, 1, k) \o <<x>> \o SubSeq(s, k + 1, Len(s))

\* variant: sorted(connections, key=strength), ascending
InsertAscending(s, x) ==
  LET before == {i \in 0..Len(s) : \A j \in 1..i : ~StrengthLess(x.strength, s[j].strength)}
      k == CHOOSE i \in before : \A j \in before : j <= i
  IN SubSeq(s, 1, k) \o <<x>> \o SubSeq(s, k + 1, Len(s))

RECURSIVE SortedAscending(_)
SortedAscending(s) ==
  IF s = <<>> THEN <<>>
  ELSE InsertAscending(SortedAscending(SubSeq(s, 1, Len(s) - 1)), s[Len(s)])

\* variant: sorted(connections, key=strength)[::-1]; descending, but records of
\* equal strength come out in the reverse of the order they were found in
SortedThenReversed(s) ==
  LET t == SortedAscending(s)
  IN [i \in 1..Len(t) |-> t[Len(t) + 1 - i]]

RECURSIVE SortedByStrength(_)
SortedByStrength(s) ==
  IF s = <<>> THEN <<>>
  ELSE InsertDesc(SortedByStrength(SubSeq(s, 1, Len(s) - 1)), s[Len(s)])

find_connections(d, numeric, categorical) ==
  SortedByStrength(Correlations(d, numeric) \o Influences(d, numeric, categorical))

(***************************************************************************)
(* Outliers of one numeric column.                                         *)
(***************************************************************************)
\* Series.dropna(): the present values with their row labels, in row order
dropna(values) ==
  LET rows == SelectSeq([i \in DOMAIN values |-> i], LAMBDA i : ~IsNA(values[i]))
  IN [k \in DOMAIN rows |-> [row |-> rows[k], value |-> values[rows[k]].v]]

InsertAsc(s, x) ==
  LET k == Cardinality({i \in DOMAIN s : s[i] <= x})
  IN SubSeq(s, 1, k) \o <<x>> \o SubSeq(s, k + 1, Len(s))

RECURSIVE SortAsc(_)
SortAsc(s) ==
  IF s = <<>> THEN <<>>
  ELSE InsertAsc(SortAsc(SubSeq(s, 1, Len(s) - 1)), s[Len(s)])

\* 4 * Series.quantile(k / 4) of a non-empty column, by linear interpolation
\* between the order statistics around position (n - 1) * k / 4
Quantile4(data_col, k) ==
  LET v == SortAsc([i \in DOMAIN data_col |-> data_col[i].value])
      h == (Len(v) - 1) * k
      lo == (h \div 4) + 1
      frac == h % 4
  IN IF frac = 0 THEN 4 * v[lo] ELSE 4 * v[lo] + frac * (v[lo + 1] - v[lo])

FenceNum == 3
FenceDen == 2

\* variant: values on a fence count as outliers
iqr_outliers_inclusive(data_col) ==
  IF data_col = <<>> THEN <<>>
  ELSE LET Q1 == Quantile4(data_col, 1)
           Q3 == Quantile4(data_col, 3)
           IQR == Q3 - Q1
           lower_bound == FenceDen * Q1 - FenceNum * IQR
           upper_bound == FenceDen * Q3 + FenceNum * IQR
       IN SelectSeq(data_col, LAMBDA e :
            \/ 4 * FenceDen * e.value <= lower_bound
            \/ 4 * FenceDen * e.value >= upper_bound)

\* (data_col < lower_bound) | (data_col > upper_bound); nothing when the quantiles
\* of an empty column are undefined
iqr_outliers(data_col) ==
  IF data_col = <<>> THEN <<>>
  ELSE LET Q1 == Quantile4(data_col, 1)
           Q3 == Quantile4(data_col, 3)
           IQR == Q3 - Q1
           lower_bound == FenceDen * Q1 - FenceNum * IQR
           upper_bound == FenceDen * Q3 + FenceNum * IQR
       IN SelectSeq(data_col, LAMBDA e :
            \/ 4 * FenceDen * e.value < lower_bound
            \/ 4 * FenceDen * e.value > upper_bound)

ZThreshold == 3

\* variant: not (z <= 3), which the undefined scores of a zero or undefined
\* deviation pass
zscore_outliers_nan_passes(data_col) ==
  LET n == Len(data_col)
      x == [i \in DOMAIN data_col |-> data_col[i].value]
      S == SumFn(x)
      ssd == SumSqDev(x)
  IN IF n < 2 \/ ssd = 0 THEN data_col
     ELSE SelectSeq(data_col, LAMBDA e :
            (n * e.value - S) * (n * e.value - S) * (n - 1) > ZThreshold * ZThreshold * n * ssd)

\* np.abs((data_col - mean) / std) > 3, std the sample deviation: undefined for
\* fewer than two values, and 0 / 0 is undefined when it is zero
zscore_outliers(data_col) ==
  LET n == Len(data_col)
      x == [i \in DOMAIN data_col |-> data_col[i].value]
      S == SumFn(x)
      ssd == SumSqDev(x)
  IN IF n < 2 \/ ssd = 0 THEN <<>>
     ELSE SelectSeq(data_col, LAMBDA e :
            (n * e.value - S) * (n * e.value - S) * (n - 1) > ZThreshold * ZThreshold * n * ssd)

outliers_of(data_col, method) ==
  IF method = "iqr" THEN iqr_outliers(data_col)
  ELSE IF method = "zscore" THEN zscore_outliers(data_col)
  ELSE <<>>

(***************************************************************************)
(* Summary.                                                                *)
(***************************************************************************)
\* one column of DataFrame.describe(); every statistic but count is undefined
\* for a column without values (std also for a single value)
Describe(values) ==
  LET data_col == dropna(values)
      x == [i \in DOMAIN data_col |-> data_col[i].value]
      n == Len(data_col)
  IN [count |-> n,
      sum |-> SumFn(x),
      ssd |-> SumSqDev(x),
      min4 |-> IF n = 0 THEN 0 ELSE Quantile4(data_col, 0),
      q25 |-> IF n = 0 THEN 0 ELSE Quantile4(data_col, 1),
      q50 |-> IF n = 0 THEN 0 ELSE Quantile4(data_col, 2),
      q75 |-> IF n = 0 THEN 0 ELSE Quantile4(data_col, 3),
      max4 |-> IF n = 0 THEN 0 ELSE Quantile4(data_col, 4)]

NoSummary ==
  [shape |-> <<0, 0>>, columns |-> <<>>, numeric_columns |-> <<>>,
   categorical_columns |-> <<>>, missing_values |-> <<>>, basic_stats |-> <<>>]

get_summary(d, numeric, categorical) ==
  [shape |-> <<d.nrows, Len(d.columns)>>,
   columns |-> [i \in DOMAIN d.columns |-> d.columns[i].name],
   numeric_columns |-> numeric,
   categorical_columns |-> categorical,
   missing_values |-> [i \in DOMAIN d.columns |->
        Cardinality({r \in DOMAIN d.columns[i].values : IsNA(d.columns[i].values[r])})],
   basic_stats |-> IF numeric # <<>>
                   THEN [i \in DOMAIN numeric |-> Describe(Column(d, numeric[i]).values)]
                   ELSE <<>>]

(***************************************************************************)
(* The analyzer: its fields, the value or failure of the last call (ret),  *)
(* and what find_connections last returned since the data was loaded.      *)
(***************************************************************************)
MaxCols == 2
MaxRows == 2
MaxVal == 1
MaxLabels == 2

NumCells(maxv) == {Num(v) : v \in 0..maxv}

Tokens ==
  NumCells(MaxVal) \cup {NA} \cup {Str(i) : i \in 1..MaxLabels} \cup {Bool(0), Bool(1)}

\* the tables of c columns and r rows; <<>> is the empty file
Files(c, r) == [1..c -> [1..r -> Tokens]]

\* a key-like column: strictly increasing numbers
IncreasingColumns(rows, maxv) ==
  {s \in [1..rows -> NumCells(maxv)] : \A i \in 1..(rows - 1) : s[i].v < s[i + 1].v}

\* two numeric columns: a key and a measurement with missing entries
CorrRows == 4
CorrMaxVal == 4

CorrKeys == IncreasingColumns(CorrRows, CorrMaxVal)
CorrMeasurements == [1..CorrRows -> NumCells(CorrMaxVal) \cup {NA}]

\* a key, a measurement with missing entries, and a label column
MixRows == 4
MixMaxVal == 3
MixLabels == 2

MixKeys == IncreasingColumns(MixRows, MixMaxVal)
MixMeasurements == [1..MixRows -> NumCells(MixMaxVal) \cup {NA}]
MixLabelColumns == [1..MixRows -> {Str(i) : i \in 1..MixLabels}]

\* one column of small numbers, one far value and missing entries
OutRows == 5
OutMaxVal == 4
OutExtreme == 100

OutTokens == {Num(v) : v \in 1..OutMaxVal} \cup {Num(OutExtreme), NA}

OutColumns(r) == [1..r -> OutTokens]

\* columns of few distinct values, so that several pairs are equally strong
TieRows == 4
TieMaxVal == 1
TieLabels == 2

TieNumbers == [1..TieRows -> NumCells(TieMaxVal)]
TieLabelColumns == [1..TieRows -> {Str(i) : i \in 1..TieLabels}]
TieColumns == TieNumbers \cup TieLabelColumns

ColumnArgs == Range(Names) \cup {"nosuch"}
Methods == {"iqr", "zscore", "mad"}

NoRet ==
  [op |-> "none", status |-> "ok", column |-> "", method |-> "",
   connections |-> <<>>, outliers |-> <<>>, summary |-> NoSummary]

NoConnections == [valid |-> FALSE, again |-> FALSE, list |-> <<>>]

InitWith(f) ==
  /\ file = f
  /\ data = NoData
  /\ numeric_columns = <<>>
  /\ categorical_columns = <<>>
  /\ ret = NoRet
  /\ last_connections = NoConnections

\* every table of at most MaxCols columns and MaxRows rows
Init == \E c \in 0..MaxCols, r \in 0..MaxRows : \E f \in Files(c, r) : InitWith(f)

LoadData ==
  IF ReadCsvFails(file)
  THEN /\ ret' = [NoRet EXCEPT !.op = "load_data", !.status = "LoadError"]
       /\ UNCHANGED <<file, data, numeric_columns, categorical_columns, last_connections>>
  ELSE /\ data' = read_csv(file)
       /\ numeric_columns' = select_dtypes(data', {"int64", "float64"})
       /\ categorical_columns' = select_dtypes(data', {"object"})
       /\ ret' = [NoRet EXCEPT !.op = "load_data"]
       /\ last_connections' = NoConnections
       /\ UNCHANGED file

\* variant: a dataset without rows is refused
GetSummaryFailsOnEmpty ==
  /\ ret' = IF data = NoData
            THEN [NoRet EXCEPT !.op = "get_summary", !.status = "NotLoaded"]
            ELSE IF data.nrows = 0
            THEN [NoRet EXCEPT !.op = "get_summary", !.status = "EmptyDataset"]
            ELSE [NoRet EXCEPT !.op = "get_summary",
                               !.summary = get_summary(data, numeric_columns, categorical_columns)]
  /\ UNCHANGED <<file, data, numeric_columns, categorical_columns, last_connections>>

GetSummary ==
  /\ ret' = IF data = NoData
            THEN [NoRet EXCEPT !.op = "get_summary", !.status = "NotLoaded"]
            ELSE [NoRet EXCEPT !.op = "get_summary",
                               !.summary = get_summary(data, numeric_columns, categorical_columns)]
  /\ UNCHANGED <<file, data, numeric_columns, categorical_columns, last_connections>>

\* DataFrame.dropna(): the rows without a missing entry
DropNaRows(d) ==
  IF d = NoData THEN d
  ELSE LET keep == SelectSeq([i \in 1..d.nrows |-> i],
                             LAMBDA i : \A c \in Range(d.columns) : ~IsNA(c.values[i]))
       IN [nrows |-> Len(keep),
           columns |-> [c \in DOMAIN d.columns |->
              [d.columns[c] EXCEPT !.values = [k \in DOMAIN keep |-> d.columns[c].values[keep[k]]]]]]

\* variant: incomplete rows are dropped from the frame itself before the analysis
FindConnectionsInPlace ==
  LET connections == find_connections(DropNaRows(data), numeric_columns, categorical_columns)
  IN /\ ret' = [NoRet EXCEPT !.op = "find_connections", !.connections = connections]
     /\ last_connections' = [valid |-> TRUE, again |-> last_connections.valid,
                              list |-> connections]
     /\ data' = DropNaRows(data)
     /\ UNCHANGED <<file, numeric_columns, categorical_columns>>

FindConnections ==
  LET connections == find_connections(data, numeric_columns, categorical_columns)
  IN /\ ret' = [NoRet EXCEPT !.op = "find_connections", !.connections = connections]
     /\ last_connections' = [valid |-> TRUE, again |-> last_connections.valid,
                              list |-> connections]
     /\ UNCHANGED <<file, data, numeric_columns, categorical_columns>>

\* variant: the column is checked inside the two method branches only
GetOutliersLateCheck(column, method) ==
  /\ ret' = IF method \notin {"iqr", "zscore"}
            THEN [NoRet EXCEPT !.op = "get_outliers", !.column = column, !.method = method]
            ELSE IF column \notin Range(numeric_columns)
            THEN [NoRet EXCEPT !.op = "get_outliers", !.status = "InvalidColumn",
                               !.column = column, !.method = method]
            ELSE [NoRet EXCEPT !.op = "get_outliers", !.column = column, !.method = method,
                               !.outliers = outliers_of(dropna(Column(data, column).values), method)]
  /\ UNCHANGED <<file, data, numeric_columns, categorical_columns, last_connections>>

GetOutliers(column, method) ==
  /\ ret' = IF column \notin Range(numeric_columns)
            THEN [NoRet EXCEPT !.op = "get_outliers", !.status = "InvalidColumn",
                               !.column = column, !.method = method]
            ELSE [NoRet EXCEPT !.op = "get_outliers", !.column = column, !.method = method,
                               !.outliers = outliers_of(dropna(Column(data, column).values), method)]
  /\ UNCHANGED <<file, data, numeric_columns, categorical_columns, last_connections>>

Next ==
  \/ LoadData
  \/ GetSummary
  \/ FindConnections
  \/ \E column \in ColumnArgs, method \in Methods : GetOutliers(column, method)

Spec == Init /\ [][Next]_vars

\* connection discovery alone, on the files it is checked on
NextConn ==
  \/ LoadData
  \/ FindConnections

InitCorr == \E x \in CorrKeys : \E y \in CorrMeasurements : InitWith(<<x, y>>)
SpecCorr == InitCorr /\ [][NextConn]_vars

InitMix ==
  \E x \in MixKeys : \E y \in MixMeasurements : \E c \in MixLabelColumns :
    InitWith(<<x, y, c>>)
SpecMix == InitMix /\ [][NextConn]_vars

\* outlier detection alone
NextOut ==
  \/ LoadData
  \/ \E column \in ColumnArgs, method \in Methods : GetOutliers(column, method)

InitOut == \E r \in 0..OutRows : \E col \in OutColumns(r) : InitWith(<<col>>)
SpecOut == InitOut /\ [][NextOut]_vars

\* three columns, each of them numeric or a label column
InitTies ==
  \E x \in TieColumns : \E y \in TieColumns : \E z \in TieColumns :
    InitWith(<<x, y, z>>)
SpecTies == InitTies /\ [][NextConn]_vars

(***************************************************************************)
(* Properties.                                                             *)
(***************************************************************************)
Connections == ret.connections

Correlation(i) == Connections[i].type = "correlation"
Influence(i) == Connections[i].type = "categorical_influence"

Values(name) == Column(data, name).values

\* the present values of a column are all equal (also when there is at most one)
ConstantColumn(values) ==
  \A i, j \in DOMAIN values : (~IsNA(values[i]) /\ ~IsNA(values[j])) => values[i] = values[j]

Present(values) == {i \in DOMAIN values : ~IsNA(values[i])}

\* C1: the list find_connections returns is sorted by strength, non-increasing:
\* no record is weaker than the record after it, whatever the types of the two.
C1_RankedByStrength ==
  ret.op = "find_connections" =>
    \A i \in 1..(Len(Connections) - 1) :
      ~StrengthLess(Connections[i].strength, Connections[i + 1].strength)

\* an influence found last is ranked first, a correlation second and a weaker
\* influence third
C1_Witness ==
  /\ ret.op = "find_connections"
  /\ Len(Connections) = 3
  /\ Influence(1) /\ Correlation(2) /\ Influence(3)
  /\ Connections[1].numeric_column = "c2"
  /\ StrengthLess(Connections[2].strength, Connections[1].strength)
  /\ StrengthLess(Connections[3].strength, Connections[2].strength)

\* C2: every correlation record has a defined coefficient with abs(value) > 0.3
\* and strength = abs(value); a pair of numeric columns whose coefficient is
\* undefined or has abs(value) <= 0.3 (0.3 and -0.3 included) has no record.
C2_StrictThreshold ==
  ret.op = "find_connections" =>
    /\ \A i \in DOMAIN Connections :
         Correlation(i) =>
           /\ ~Connections[i].value.nan
           /\ 100 * Connections[i].value.num > 9 * Connections[i].value.den
           /\ Connections[i].strength.num * Connections[i].value.den
                = Connections[i].value.num * Connections[i].strength.den
           /\ Connections[i].strength.dnum = 0
    /\ \A a, b \in Range(numeric_columns) :
         LET c == corr(Values(a), Values(b))
         IN (c.nan \/ 100 * c.num <= 9 * c.den) =>
              ~\E i \in DOMAIN Connections :
                 Correlation(i) /\ Connections[i].column1 = a /\ Connections[i].column2 = b

\* find_connections has run on two columns whose coefficient is exactly 0.3 or -0.3
C2_Witness ==
  /\ ret.op = "find_connections"
  /\ data # NoData
  /\ Len(numeric_columns) = 2
  /\ LET c == corr(Values(numeric_columns[1]), Values(numeric_columns[2]))
     IN ~c.nan /\ 100 * c.num = 9 * c.den
  /\ Connections = <<>>

\* C3: a numeric column whose present values are all equal is column1 or column2
\* of no correlation record, and find_connections does not fail.
C3_ConstantColumnExcluded ==
  ret.op = "find_connections" =>
    /\ ret.status = "ok"
    /\ \A name \in Range(numeric_columns) :
         ConstantColumn(Values(name)) =>
           \A i \in DOMAIN Connections :
             Correlation(i) => Connections[i].column1 # name /\ Connections[i].column2 # name

\* find_connections has run on a column of several equal values, some entries
\* missing, beside a column that varies
C3_Witness ==
  /\ ret.op = "find_connections"
  /\ ret.status = "ok"
  /\ data # NoData
  /\ \E a, b \in Range(numeric_columns) :
       /\ ConstantColumn(Values(a))
       /\ Cardinality(Present(Values(a))) >= 2
       /\ Cardinality(Present(Values(a))) < data.nrows
       /\ ~ConstantColumn(Values(b))

\* C4: get_outliers on a column that is not in numeric_columns fails with
\* InvalidColumn, whatever the method, and leaves data and the classification
\* as they were.
C4_InvalidColumn ==
  [][(ret'.op = "get_outliers" /\ ret'.column \notin Range(numeric_columns)) =>
       /\ ret'.status = "InvalidColumn"
       /\ UNCHANGED <<data, numeric_columns, categorical_columns>>]_vars

\* an unrecognized method on a categorical column of loaded data
C4_Witness ==
  /\ ret.op = "get_outliers"
  /\ ret.status = "InvalidColumn"
  /\ ret.column \in Range(categorical_columns)
  /\ ret.method = "mad"

Queries == {"get_summary", "find_connections", "get_outliers"}

WellFormedConnections ==
  \A i \in DOMAIN Connections :
    /\ Connections[i].type \in {"correlation", "categorical_influence"}
    /\ Connections[i].strength.den > 0
    /\ Connections[i].strength.num > 0
    /\ Connections[i].strength.num <= Connections[i].strength.den

WellFormedOutliers ==
  \A k \in DOMAIN ret.outliers :
    /\ ret.outliers[k].row \in Present(Values(ret.column))
    /\ ret.outliers[k].value = Values(ret.column)[ret.outliers[k].row].v

WellFormedSummary ==
  /\ ret.summary.shape = <<data.nrows, Len(data.columns)>>
  /\ Len(ret.summary.columns) = Len(data.columns)
  /\ \A i \in DOMAIN data.columns : ret.summary.missing_values[i] \in 0..data.nrows

\* C5 as stated: every query returns or fails with InvalidColumn, and summary
\* and discovery never fail, before a load as well.
C5_OnlyInvalidColumn ==
  ret.op \in Queries =>
    /\ ret.status \in {"ok", "InvalidColumn"}
    /\ ret.op \in {"get_summary", "find_connections"} => ret.status = "ok"

\* C5: find_connections always returns a well-formed list; get_summary returns a
\* well-formed summary once data is loaded and fails with the data-not-loaded
\* error before; get_outliers returns well-formed outliers or fails with
\* InvalidColumn; no query fails in another way.
C5_QueryFailures ==
  /\ ret.op = "find_connections" => ret.status = "ok" /\ WellFormedConnections
  /\ ret.op = "get_summary" =>
       IF data = NoData THEN ret.status = "NotLoaded"
       ELSE ret.status = "ok" /\ WellFormedSummary
  /\ ret.op = "get_outliers" =>
       /\ ret.status \in {"ok", "InvalidColumn"}
       /\ ret.status = "ok" => WellFormedOutliers

\* get_summary has returned for loaded data without rows
C5_Witness ==
  /\ ret.op = "get_summary"
  /\ ret.status = "ok"
  /\ data # NoData
  /\ data.nrows = 0
  /\ ret.summary.shape = <<0, Len(data.columns)>>

\* C6: once data is loaded, every column of it is in exactly one of
\* numeric_columns and categorical_columns.
C6_Partition ==
  data # NoData =>
    \A i \in DOMAIN data.columns :
      /\ data.columns[i].name \in Range(numeric_columns) \cup Range(categorical_columns)
      /\ data.columns[i].name \notin Range(numeric_columns) \cap Range(categorical_columns)

\* C7: find_connections leaves data and the classification as they were, and
\* returns the list it returned before, whatever queries ran since, as long as
\* the data was not loaded again.
C7_ReadOnlyRepeatable ==
  [][ret'.op = "find_connections" =>
       /\ UNCHANGED <<data, numeric_columns, categorical_columns>>
       /\ last_connections.valid => ret'.connections = last_connections.list]_vars

\* find_connections has returned a non-empty list a second time since the load
C7_Witness ==
  /\ ret.op = "find_connections"
  /\ last_connections.again
  /\ data # NoData
  /\ Connections # <<>>
  /\ Connections = last_connections.list

\* the j-th smallest of the values f[i], by rank
OrderStat(f, j) ==
  CHOOSE x \in Range(f) :
    /\ Cardinality({i \in DOMAIN f : f[i] < x}) < j
    /\ j <= Cardinality({i \in DOMAIN f : f[i] <= x})

\* four times the k-th quartile of the values f[i], interpolated linearly between
\* the two order statistics around rank 1 + (n - 1) * k / 4
Quartile4(f, k) ==
  LET h == (Cardinality(DOMAIN f) - 1) * k
      lo == (h \div 4) + 1
      part == h % 4
  IN IF part = 0 THEN 4 * OrderStat(f, lo)
     ELSE (4 - part) * OrderStat(f, lo) + part * OrderStat(f, lo + 1)

\* x < Q1 - 1.5 * IQR or x > Q3 + 1.5 * IQR, over the values f[i]
OutsideFences(f, x) ==
  LET q1 == Quartile4(f, 1)
      q3 == Quartile4(f, 3)
  IN \/ 8 * x < 2 * q1 - 3 * (q3 - q1)
     \/ 8 * x > 2 * q3 + 3 * (q3 - q1)

\* C8: get_outliers(column, 'iqr') on a numeric column returns exactly the present
\* values strictly outside the fences Q1 - 1.5 * IQR and Q3 + 1.5 * IQR, each with
\* its row, in row order; [1, 2, 3, 4, 100] yields 100 alone.
C8_IqrOutliers ==
  (ret.op = "get_outliers" /\ ret.method = "iqr" /\ ret.status = "ok") =>
    LET values == Values(ret.column)
        f == [i \in Present(values) |-> values[i].v]
    IN /\ \A k \in DOMAIN ret.outliers :
            /\ ret.outliers[k].row \in DOMAIN f
            /\ ret.outliers[k].value = f[ret.outliers[k].row]
            /\ OutsideFences(f, ret.outliers[k].value)
       /\ \A i \in DOMAIN f :
            OutsideFences(f, f[i]) => \E k \in DOMAIN ret.outliers : ret.outliers[k].row = i
       /\ \A k \in 1..(Len(ret.outliers) - 1) : ret.outliers[k].row < ret.outliers[k + 1].row
       /\ values = <<Num(1), Num(2), Num(3), Num(4), Num(100)>> =>
            ret.outliers = <<[row |-> 5, value |-> 100]>>

\* the column [1, 2, 3, 4, 100] has yielded 100 alone
C8_Witness ==
  /\ ret.op = "get_outliers"
  /\ ret.method = "iqr"
  /\ ret.status = "ok"
  /\ Values(ret.column) = <<Num(1), Num(2), Num(3), Num(4), Num(100)>>
  /\ ret.outliers = <<[row |-> 5, value |-> 100]>>

\* C9: get_outliers(column, 'zscore') on a numeric column whose present values
\* are all equal, or which has one present value or none, returns nothing and
\* does not fail.
C9_ZscoreZeroDeviation ==
  (/\ ret.op = "get_outliers"
   /\ ret.method = "zscore"
   /\ ret.column \in Range(numeric_columns)
   /\ ConstantColumn(Values(ret.column))) =>
    /\ ret.status = "ok"
    /\ ret.outliers = <<>>

\* the z-score method has returned nothing for a column of four equal values
C9_Witness ==
  /\ ret.op = "get_outliers"
  /\ ret.method = "zscore"
  /\ ret.status = "ok"
  /\ ret.column \in Range(numeric_columns)
  /\ ConstantColumn(Values(ret.column))
  /\ Cardinality(Present(Values(ret.column))) = 4
  /\ ret.outliers = <<>>

\* the labels of cat that have a present value of num in some row
GroupsWithValues(cat, num) ==
  {cat[i] : i \in {j \in DOMAIN cat : ~IsNA(cat[j]) /\ ~IsNA(num[j])}}

\* C10: a (categorical column, numeric column) pair with fewer than 2 category
\* groups that hold a present numeric value has no categorical_influence record.
C10_TwoGroupsNeeded ==
  ret.op = "find_connections" =>
    \A c \in Range(categorical_columns), n \in Range(numeric_columns) :
      Cardinality(GroupsWithValues(Values(c), Values(n))) < 2 =>
        ~\E i \in DOMAIN Connections :
           /\ Influence(i)
           /\ Connections[i].categorical_column = c
           /\ Connections[i].numeric_column = n

\* find_connections has run on a pair with two labels, where every numeric value
\* of one label is missing and the values of the other label differ
C10_Witness ==
  /\ ret.op = "find_connections"
  /\ \E c \in Range(categorical_columns), n \in Range(numeric_columns) :
       /\ Cardinality(GroupLabels(Values(c))) = 2
       /\ Cardinality(GroupsWithValues(Values(c), Values(n))) = 1
       /\ \E i, j \in Present(Values(n)) :
            /\ Values(c)[i] = Values(c)[j]
            /\ Values(n)[i] # Values(n)[j]
       /\ ~\E i \in DOMAIN Connections :
            Influence(i) /\ Connections[i].numeric_column = n

\* the place of a column in a list of column names
Pos(columns, name) == CHOOSE k \in DOMAIN columns : columns[k] = name

SameStrength(a, b) ==
  /\ ~StrengthLess(a.strength, b.strength)
  /\ ~StrengthLess(b.strength, a.strength)

\* a is found before b by the two passes of find_connections: the pairs of
\* numeric columns first, row by row of the upper triangle, then the pairs
\* (categorical column, numeric column), categorical column by categorical column
FoundBefore(a, b) ==
  IF a.type = "correlation"
  THEN IF b.type = "correlation"
       THEN LET a1 == Pos(numeric_columns, a.column1)
                b1 == Pos(numeric_columns, b.column1)
            IN \/ a1 < b1
               \/ /\ a1 = b1
                  /\ Pos(numeric_columns, a.column2) < Pos(numeric_columns, b.column2)
       ELSE TRUE
  ELSE IF b.type = "correlation"
       THEN FALSE
       ELSE LET ac == Pos(categorical_columns, a.categorical_column)
                bc == Pos(categorical_columns, b.categorical_column)
            IN \/ ac < bc
               \/ /\ ac = bc
                  /\ Pos(numeric_columns, a.numeric_column)
                       < Pos(numeric_columns, b.numeric_column)

\* C11: the ranking of find_connections is stable. A correlation record names
\* its two columns in source order (column1 before column2) and no two records
\* are about the same unordered pair; of two records of equal strength the one
\* found first is listed first: correlations in pair order, a correlation
\* before a categorical influence, categorical influences in the order of the
\* (categorical column, numeric column) pairs.
C11_StableRanking ==
  ret.op = "find_connections" =>
    /\ \A i \in DOMAIN Connections :
         Correlation(i) =>
           /\ Connections[i].column1 \in Range(numeric_columns)
           /\ Connections[i].column2 \in Range(numeric_columns)
           /\ Pos(numeric_columns, Connections[i].column1)
                < Pos(numeric_columns, Connections[i].column2)
    /\ \A i, j \in DOMAIN Connections :
         (i < j /\ Correlation(i) /\ Correlation(j)) =>
           {Connections[i].column1, Connections[i].column2}
             # {Connections[j].column1, Connections[j].column2}
    /\ \A i, j \in DOMAIN Connections :
         (i < j /\ SameStrength(Connections[i], Connections[j])) =>
           FoundBefore(Connections[i], Connections[j])

\* a correlation and the two influences of the label column, all three equally
\* strong, listed in the order they were found in
C11_Witness ==
  /\ ret.op = "find_connections"
  /\ Len(Connections) = 3
  /\ Correlation(1) /\ Influence(2) /\ Influence(3)
  /\ SameStrength(Connections[1], Connections[2])
  /\ SameStrength(Connections[2], Connections[3])
  /\ Connections[1].column1 = "c1" /\ Connections[1].column2 = "c2"
  /\ Connections[2].numeric_column = "c1"
  /\ Connections[3].numeric_column = "c2"

====
